---- MODULE Spec2Model ----
(***************************************************************************)
(* Storefront page of src/src/main.js: the catalog of src/src/products.mjs, *)
(* the cart array, the listing and cart sections of the page, the totals    *)
(* computation with its time-based pricing rules, and the session timer.    *)
(*                                                                          *)
(* Money is kept exact: an amount of money is an integer number of          *)
(* 1/Scale kr, so that x * 1.15, x * 0.9, x * 0.1 are exact integers for    *)
(* every value the page computes (the page computes in IEEE doubles and     *)
(* rounds to two decimals only when it displays).                           *)
(* An instant is the local wall-clock minute of the week, 0 = Sunday 00:00. *)
(***************************************************************************)
EXTENDS Integers, Sequences, FiniteSets, TLC

VARIABLES
  products,          \* the catalog array: the product objects (an object gains an amount field once bought)
  cart,              \* the cart array: references to product objects, as product ids
  filteredProducts,  \* the filtered/sorted listing array, as product ids
  inputValue,        \* value of the #amount-<id> quantity field of the listing
  productsListing,   \* #menuList as rendered by printProducts
  cartSection,       \* #cart as rendered by printCart
  totals,            \* what the last updateCartTotals computed and displayed
  payment,           \* the invoiceOrCard radios, the two payment sections and the invoice warning
  timers,            \* the session timers that are scheduled and have not fired
  idle,              \* minutes since the last click, keypress or input event (since load before the first)
  now,               \* the wall clock
  dispatched         \* number of events dispatched to the page's listeners so far, modulo 2

vars == <<products, cart, filteredProducts, inputValue, productsListing, cartSection,
          totals, payment, timers, idle, now, dispatched>>

-----------------------------------------------------------------------------
(* Bounds of the model *)

\* largest value the customer drives a listing quantity field to
MaxInput == 2
\* largest quantity a cart line is driven to by the cart's own + button and by Buy
MaxAmount == 3
\* the products whose listing buttons the customer uses
Shelf == {11, 12, 21}
\* number of minutes the clock is followed for when the passing of time is
MaxMinutes == 33

-----------------------------------------------------------------------------
(* Units *)

Scale == 10 ^ 5
MinutesPerDay == 24 * 60
MinutesPerWeek == 7 * MinutesPerDay

Kr(n) == n * Scale

\* the instant of day d (0 = Sunday), hour h, minute m
At(d, h, m) == d * MinutesPerDay + h * 60 + m

GetDay(t) == t \div MinutesPerDay
GetHours(t) == (t % MinutesPerDay) \div 60
GetMinutes(t) == t % 60

\* the clock one minute later
NextMinute(t) == (t + 1) % MinutesPerWeek

\* The i-th of the n clock reads of a callback that starts at instant t: the
\* last late of them happen after the clock has moved to the next minute.
ReadAt(i, n, late, t) == IF i > n - late THEN NextMinute(t) ELSE t

-----------------------------------------------------------------------------
(* The catalog *)

Catalog ==
  << [id |-> 11, name |-> "Rice Cookie",             price |-> 29,  category |-> "snacks"],
     [id |-> 12, name |-> "Mochi",                   price |-> 49,  category |-> "snacks"],
     [id |-> 13, name |-> "Sticky rice with Mango",  price |-> 79,  category |-> "snacks"],
     [id |-> 14, name |-> "Vietnamese spring roll",  price |-> 99,  category |-> "snacks"],
     [id |-> 21, name |-> "Vietnamese Fried Rice",   price |-> 149, category |-> "food"],
     [id |-> 22, name |-> "Vietnamese noodle soup with beef",                     price |-> 179, category |-> "food"],
     [id |-> 23, name |-> "Rice noodles with fried spring rolls ",                     price |-> 179, category |-> "food"],
     [id |-> 24, name |-> "Broken rice with pork",                     price |-> 129, category |-> "food"],
     [id |-> 31, name |-> "Iced Peach Tea",                     price |-> 29,  category |-> "drinks"],
     [id |-> 32, name |-> "Vietnamese Drip-Coffee",                     price |-> 49,  category |-> "drinks"],
     [id |-> 33, name |-> "Strawberry Lemonade",                     price |-> 59,  category |-> "drinks"],
     [id |-> 34, name |-> "Mojito (Non-Alcoholic)",                     price |-> 59,  category |-> "drinks"] >>

ProductIds == {Catalog[i].id : i \in DOMAIN Catalog}
Categories == {Catalog[i].category : i \in DOMAIN Catalog}

\* products.find(product => product.id === id) on a catalog array ps
Find(ps, id) == ps[CHOOSE i \in DOMAIN ps : ps[i].id = id]

\* product.amount = q on the object of product id, in the catalog array ps
SetAmount(ps, id, q) ==
  [i \in DOMAIN ps |->
     IF ps[i].id = id
       THEN [f \in DOMAIN ps[i] \cup {"amount"} |-> IF f = "amount" THEN q ELSE ps[i][f]]
       ELSE ps[i]]

-----------------------------------------------------------------------------
(* 2. Session timeout management *)

INACTIVITY_TIMEOUT_MINUTES == 15

\* setTimeout(clearOrder, 1000 * 60 * INACTIVITY_TIMEOUT_MINUTES): a timer with
\* the minutes left until it is due; current marks the timer timeoutId names
NewTimer == [remaining |-> INACTIVITY_TIMEOUT_MINUTES, current |-> TRUE]

\* resetTimeout without clearTimeout: the timer scheduled before stays pending
resetTimeoutKeepPending(ts) ==
  {[tm EXCEPT !.current = FALSE] : tm \in ts} \cup {NewTimer}

\* resetTimeout(): clearTimeout(timeoutId), then timeoutId = setTimeout(...)
resetTimeout(ts) ==
  {tm \in ts : ~tm.current} \cup {NewTimer}

-----------------------------------------------------------------------------
(* 3. Pricing rules *)

MONDAY == 1
BULK_THRESHOLD == 10
INVOICE_LIMIT == 800

\* isWeekendSurcharge with the Friday start compared by > instead of >=
isWeekendSurchargeLateStart(t) ==
  LET dayOfWeek == GetDay(t)
      currentTimeInMinutes == GetHours(t) * 60 + GetMinutes(t)
  IN  \/ dayOfWeek = 5 /\ currentTimeInMinutes > 900
      \/ dayOfWeek = 6
      \/ (dayOfWeek = 0 \/ dayOfWeek = 1) /\ currentTimeInMinutes < 180

\* Weekend surcharge decision of calculateProductPrice at instant t
isWeekendSurcharge(t) ==
  LET dayOfWeek == GetDay(t)
      currentTimeInMinutes == GetHours(t) * 60 + GetMinutes(t)
      fridayStart == dayOfWeek = 5 /\ currentTimeInMinutes >= 900
      saturday == dayOfWeek = 6
      sundayToMondayNight ==
        (dayOfWeek = 0 \/ dayOfWeek = 1) /\ currentTimeInMinutes < 180
  IN  fridayStart \/ saturday \/ sundayToMondayNight

\* calculateProductPrice(basePrice) with new Date() reading instant t
calculateProductPrice(basePrice, t) ==
  IF isWeekendSurcharge(t) THEN (basePrice * 115) \div 100 ELSE basePrice

\* applyBulkDiscount with the threshold compared by > instead of >=
applyBulkDiscountAbove(quantity, basePrice) ==
  IF quantity > BULK_THRESHOLD
    THEN [price |-> (basePrice * 9) \div 10, discountApplied |-> TRUE, discountPercentage |-> 10]
    ELSE [price |-> basePrice, discountApplied |-> FALSE, discountPercentage |-> 0]

applyBulkDiscount(quantity, basePrice) ==
  IF quantity >= BULK_THRESHOLD
    THEN [price |-> (basePrice * 9) \div 10, discountApplied |-> TRUE, discountPercentage |-> 10]
    ELSE [price |-> basePrice, discountApplied |-> FALSE, discountPercentage |-> 0]

\* isInvoicePaymentAllowed with the limit compared by < instead of <=
isInvoicePaymentAllowedBelow(totalAmount) == totalAmount < Kr(INVOICE_LIMIT)

isInvoicePaymentAllowed(totalAmount) == totalAmount <= Kr(INVOICE_LIMIT)

\* Number.prototype.toFixed(2): the nearest multiple of 0.01, a tie going up
ToFixed2(x) == ((x + Scale \div 200) \div (Scale \div 100)) * (Scale \div 100)

-----------------------------------------------------------------------------
(* 8. Payment method selection *)

\* handlePaymentMethodToggle({ target }) for the radio of value method, with
\* displayed the text of #cartTotal as a number; pay is the payment state before
handlePaymentMethodToggle(method, pay, displayed) ==
  IF method = "invoice" /\ ~isInvoicePaymentAllowed(displayed)
    THEN [pay EXCEPT !.warning = TRUE, !.checked = "none"]
    ELSE [pay EXCEPT !.invoiceHidden = ~(method = "invoice"),
                     !.cardHidden = (method = "invoice")]

-----------------------------------------------------------------------------
(* 6. Cart totals *)

\* the object the cart array holds at position i (1-based here, i - 1 in the page)
Line(ps, c, i) == Find(ps, c[i])

RECURSIVE SumAmounts(_, _, _, _)
\* sum of the amounts of the cart lines i..Len(c) whose category is in cats
SumAmounts(ps, c, cats, i) ==
  IF i > Len(c) THEN 0
  ELSE (IF Line(ps, c, i).category \in cats THEN Line(ps, c, i).amount ELSE 0)
       + SumAmounts(ps, c, cats, i + 1)

\* categoryCount[category] of updateCartTotals
categoryCount(ps, c, category) == SumAmounts(ps, c, {category}, 1)

\* cart.reduce((sum, product) => sum + product.amount, 0)
itemCount(ps, c) == SumAmounts(ps, c, Categories, 1)

\* PriceLine with the bulk discount taken as 10% of the base price instead of
\* 10% of the surcharged price
PriceLineDiscountOnBase(ps, c, i, at) ==
  LET product == Line(ps, c, i)
      priceWithSurcharge == calculateProductPrice(Kr(product.price), at)
      categoryQuantity == categoryCount(ps, c, product.category)
      discountResult == applyBulkDiscount(categoryQuantity, Kr(product.price))
      finalPrice == priceWithSurcharge - (Kr(product.price) - discountResult.price)
  IN  [id |-> product.id, at |-> at, amount |-> product.amount,
       priceWithSurcharge |-> priceWithSurcharge,
       categoryQuantity |-> categoryQuantity,
       discountApplied |-> discountResult.discountApplied,
       finalPrice |-> finalPrice,
       productSum |-> finalPrice * product.amount]

\* one pass of the pricing loop: the line at position i, its clock read at instant at
PriceLine(ps, c, i, at) ==
  LET product == Line(ps, c, i)
      priceWithSurcharge == calculateProductPrice(Kr(product.price), at)
      categoryQuantity == categoryCount(ps, c, product.category)
      discountResult == applyBulkDiscount(categoryQuantity, priceWithSurcharge)
      finalPrice == discountResult.price
  IN  [id |-> product.id, at |-> at, amount |-> product.amount,
       priceWithSurcharge |-> priceWithSurcharge,
       categoryQuantity |-> categoryQuantity,
       discountApplied |-> discountResult.discountApplied,
       finalPrice |-> finalPrice,
       productSum |-> finalPrice * product.amount]

RECURSIVE SumProducts(_, _)
SumProducts(lines, i) ==
  IF i > Len(lines) THEN 0 ELSE lines[i].productSum + SumProducts(lines, i + 1)

\* MondayDiscount with the hour compared by <= instead of <
MondayDiscountThroughTen(cartTotal, date) ==
  IF GetDay(date) = MONDAY /\ GetHours(date) <= 10 THEN cartTotal \div 10 ELSE 0

\* the Monday discount of updateCartTotals, its clock read at instant date
MondayDiscount(cartTotal, date) ==
  IF GetDay(date) = MONDAY /\ GetHours(date) < 10 THEN cartTotal \div 10 ELSE 0

\* ShippingCost with free shipping from 15 items instead of from 16
ShippingCostFreeFrom15(count, totalAfterDiscount) ==
  IF count >= 15 THEN 0
  ELSE IF count > 0 THEN Kr(25) + totalAfterDiscount \div 10
  ELSE 0

\* the shipping cost of updateCartTotals
ShippingCost(count, totalAfterDiscount) ==
  IF count > 15 THEN 0
  ELSE IF count > 0 THEN Kr(25) + totalAfterDiscount \div 10
  ELSE 0

\* number of clock reads of updateCartTotals on cart c: one per cart line and
\* one more for the Monday discount
TotalsReads(c) == Len(c) + 1

\* updateCartTotals(), up to the display of the total, started at instant t
ComputeTotals(ps, c, t, late) ==
  LET lines == [i \in 1..Len(c) |-> PriceLine(ps, c, i, ReadAt(i, TotalsReads(c), late, t))]
      cartTotal == SumProducts(lines, 1)
      date == ReadAt(TotalsReads(c), TotalsReads(c), late, t)
      discountAmount == MondayDiscount(cartTotal, date)
      totalAfterDiscount == cartTotal - discountAmount
      count == itemCount(ps, c)
      shippingCost == ShippingCost(count, totalAfterDiscount)
      finalTotal == totalAfterDiscount + shippingCost
  IN  [computed |-> TRUE,
       lines |-> lines,
       cartTotal |-> cartTotal,
       bulkDiscountApplied |-> \E i \in 1..Len(c) : lines[i].discountApplied,
       date |-> date,
       discountAmount |-> discountAmount,
       totalAfterDiscount |-> totalAfterDiscount,
       itemCount |-> count,
       shippingCost |-> shippingCost,
       freeShipping |-> count > 15,
       shippingText |-> ToFixed2(shippingCost),
       finalTotal |-> finalTotal,
       cartTotalText |-> ToFixed2(finalTotal)]

\* updateCartTotals without its last lines: the checked radio is left as it is
PaymentAfterTotalsUntouched(pay, t) == pay

\* the end of updateCartTotals(): the checked radio, if any, is toggled again
\* against the total just displayed
PaymentAfterTotals(pay, t) ==
  IF pay.checked = "none" THEN pay
  ELSE handlePaymentMethodToggle(pay.checked, pay, t.cartTotalText)

-----------------------------------------------------------------------------
(* 4./5. Rendering *)

\* printCart(): one article per cart line, with the data-id of the - and +
\* buttons (the product id) and the data-id of the delete button (the position)
printCart(ps, c) ==
  [i \in 1..Len(c) |->
     [name |-> Line(ps, c, i).name,
      amount |-> Line(ps, c, i).amount,
      quantityId |-> Line(ps, c, i).id,
      deleteId |-> i - 1]]

\* printProducts(): one article per listed product with its displayed price; the
\* clock is read once per product
printProducts(ps, fp, t, late) ==
  [i \in 1..Len(fp) |->
     [id |-> fp[i],
      at |-> ReadAt(i, Len(fp), late, t),
      displayPrice |-> calculateProductPrice(Kr(Find(ps, fp[i]).price), ReadAt(i, Len(fp), late, t)),
      priceText |-> ToFixed2(calculateProductPrice(Kr(Find(ps, fp[i]).price), ReadAt(i, Len(fp), late, t)))]]

-----------------------------------------------------------------------------
(* Values of the page's scripts *)

\* dataset.id of an element: <<v>> when the element carries data-id="v", <<>>
\* (undefined) when it carries none
DataId(v) == <<v>>
NoDataId == <<>>

\* Number(dataset.id): NaN for undefined
Number(d) == IF d = <<>> THEN [nan |-> TRUE, val |-> 0] ELSE [nan |-> FALSE, val |-> d[1]]

\* cart[rowId]: <<id>> for the object at that position, <<>> for undefined
CartAt(c, rowId) ==
  IF ~rowId.nan /\ rowId.val >= 0 /\ rowId.val < Len(c) THEN <<c[rowId.val + 1]>> ELSE <<>>

\* cart.findIndex(product => product.id === id), -1 when there is none
findIndex(c, id) ==
  IF \E i \in 1..Len(c) : c[i] = id
    THEN (CHOOSE i \in 1..Len(c) : c[i] = id /\ \A j \in 1..(i - 1) : c[j] # id) - 1
    ELSE -1

\* cart.splice(rowId, 1): the start is ToIntegerOrInfinity(rowId), 0 for NaN
splice(c, rowId) ==
  LET start == IF rowId.nan THEN 0 ELSE rowId.val
  IN  IF start >= Len(c) THEN c
      ELSE [i \in 1..(Len(c) - 1) |-> IF i <= start THEN c[i] ELSE c[i + 1]]

-----------------------------------------------------------------------------
(* 5. Shopping cart management: the effect of the handlers on the cart *)

\* AddToCart without the findIndex test: every purchase pushes a line
AddToCartAlwaysPush(ps, c, id, amount) ==
  [products |-> SetAmount(ps, id, amount), cart |-> Append(c, id)]

\* addProductToCart, lines 285-291: the catalog objects and the cart after
\* amount of product id was bought
AddToCart(ps, c, id, amount) ==
  LET index == findIndex(c, id)
  IN  IF index = -1
        THEN [products |-> SetAmount(ps, id, amount), cart |-> Append(c, id)]
        ELSE [products |-> SetAmount(ps, id, Find(ps, c[index + 1]).amount + amount), cart |-> c]

\* decreaseProductFromCart, lines 341-344: the catalog objects after the click
\* on a - button whose dataset.id is d
DecreaseAmount(ps, c, d) ==
  LET product == CartAt(c, Number(d))
  IN  IF product # <<>> /\ Find(ps, product[1]).amount > 0
        THEN SetAmount(ps, product[1], Find(ps, product[1]).amount - 1)
        ELSE ps

\* increaseProductFromCart, lines 352-355
IncreaseAmount(ps, c, d) ==
  LET product == CartAt(c, Number(d))
  IN  IF product # <<>>
        THEN SetAmount(ps, product[1], Find(ps, product[1]).amount + 1)
        ELSE ps

\* handleDeleteCartItem, lines 363-364
DeleteCartItem(c, d) == splice(c, Number(d))

-----------------------------------------------------------------------------
(* State after the script has run once (lines 42-61, 465, 638-650) *)

\* the totals elements before the first updateCartTotals
NotComputed ==
  [computed |-> FALSE, lines |-> <<>>, cartTotal |-> 0, bulkDiscountApplied |-> FALSE,
   date |-> 0, discountAmount |-> 0, totalAfterDiscount |-> 0, itemCount |-> 0,
   shippingCost |-> 0, freeShipping |-> FALSE, shippingText |-> 0, finalTotal |-> 0,
   cartTotalText |-> 0]

\* no radio checked and both payment sections hidden in the page's markup
InitialPayment ==
  [checked |-> "none", cardHidden |-> TRUE, invoiceHidden |-> TRUE, warning |-> FALSE]

AllIds == [i \in DOMAIN Catalog |-> Catalog[i].id]

Loaded(t) ==
  /\ products = Catalog
  /\ cart = <<>>
  /\ filteredProducts = AllIds
  /\ inputValue = [p \in ProductIds |-> 0]
  /\ productsListing = printProducts(Catalog, AllIds, t, 0)
  /\ cartSection = <<>>
  /\ totals = NotComputed
  /\ payment = InitialPayment
  /\ timers = {NewTimer}
  /\ idle = 0
  /\ now = t
  /\ dispatched = 0

-----------------------------------------------------------------------------
(* The callbacks *)

\* A click or input event runs its target's listener and then the document's
\* listener, resetTimeout (lines 92-101), which schedules the session timer anew.
Dispatch ==
  /\ timers' = resetTimeout(timers)
  /\ idle' = 0
  /\ dispatched' = 1 - dispatched

\* the clock after a callback during which the minute changed (late > 0) or not
ClockAfter(late) == IF late > 0 THEN NextMinute(now) ELSE now

\* the products whose listing article, with its buttons and its field, is rendered
Listed == {productsListing[i].id : i \in DOMAIN productsListing}

\* updateCartTotals() on the catalog objects ps and the cart c, the radios and
\* the payment sections being pay when it starts
UpdateCartTotalsWith(pay, ps, c, late) ==
  /\ totals' = ComputeTotals(ps, c, now, late)
  /\ payment' = PaymentAfterTotals(pay, totals')
  /\ now' = ClockAfter(late)

\* updateCartTotals() on the catalog objects ps and the cart c
UpdateCartTotals(ps, c, late) == UpdateCartTotalsWith(payment, ps, c, late)

\* lines 253-257: the + button of product p in the listing
IncreaseProductCount(p) ==
  /\ p \in Listed
  /\ inputValue[p] < MaxInput
  /\ inputValue' = [inputValue EXCEPT ![p] = @ + 1]
  /\ Dispatch
  /\ UNCHANGED <<products, cart, filteredProducts, productsListing, cartSection, totals,
                 payment, now>>

\* lines 260-265: the - button of product p in the listing
DecreaseProductCount(p) ==
  /\ p \in Listed
  /\ LET amount == inputValue[p] - 1
     IN  inputValue' = [inputValue EXCEPT ![p] = IF amount < 0 THEN 0 ELSE amount]
  /\ Dispatch
  /\ UNCHANGED <<products, cart, filteredProducts, productsListing, cartSection, totals,
                 payment, now>>

\* addProductToCart without the return on amount <= 0
addProductToCartAnyAmount(d, late) ==
  /\ Dispatch
  /\ LET clickedBtnId == Number(d)
         product == ~clickedBtnId.nan /\ \E i \in DOMAIN products : products[i].id = clickedBtnId.val
         inputField == product /\ clickedBtnId.val \in Listed
     IN  IF ~product \/ ~inputField
           THEN /\ late = 0
                /\ UNCHANGED <<products, cart, inputValue, cartSection, totals, payment, now>>
           ELSE LET p == clickedBtnId.val
                    amount == inputValue[p]
                    after == AddToCart(products, cart, p, amount)
                IN  /\ Find(after.products, p).amount <= MaxAmount
                    /\ late \in 0..TotalsReads(after.cart)
                    /\ inputValue' = [inputValue EXCEPT ![p] = 0]
                    /\ products' = after.products
                    /\ cart' = after.cart
                    /\ UpdateCartTotals(after.products, after.cart, late)
                    /\ cartSection' = printCart(after.products, after.cart)
  /\ UNCHANGED <<filteredProducts, productsListing>>

\* lines 277-293: addProductToCart(evt) for a click whose target's dataset.id is
\* d. It returns when products.find finds no product, it ends on the TypeError
\* of inputField.value when the listing holds no field #amount-<id> (the
\* product is filtered out), and it returns when the field's amount is <= 0.
addProductToCart(d, late) ==
  /\ Dispatch
  /\ LET clickedBtnId == Number(d)
         product == ~clickedBtnId.nan /\ \E i \in DOMAIN products : products[i].id = clickedBtnId.val
         inputField == product /\ clickedBtnId.val \in Listed
     IN  IF ~product \/ ~inputField \/ inputValue[clickedBtnId.val] <= 0
           THEN /\ late = 0
                /\ UNCHANGED <<products, cart, inputValue, cartSection, totals, payment, now>>
           ELSE LET p == clickedBtnId.val
                    amount == inputValue[p]
                    after == AddToCart(products, cart, p, amount)
                IN  /\ Find(after.products, p).amount <= MaxAmount
                    /\ late \in 0..TotalsReads(after.cart)
                    /\ inputValue' = [inputValue EXCEPT ![p] = 0]
                    /\ products' = after.products
                    /\ cart' = after.cart
                    /\ UpdateCartTotals(after.products, after.cart, late)
                    /\ cartSection' = printCart(after.products, after.cart)
  /\ UNCHANGED <<filteredProducts, productsListing>>

\* the Buy button of product p in the listing, whose data-id is p (line 231)
AddProductToCart(p, late) ==
  /\ p \in Listed
  /\ addProductToCart(DataId(p), late)

\* lines 340-348: the - button of the cart article at position i
DecreaseProductFromCart(i, late) ==
  /\ i \in DOMAIN cartSection
  /\ Dispatch
  /\ LET d == DataId(cartSection[i].quantityId)
         after == DecreaseAmount(products, cart, d)
     IN  IF after = products
           THEN /\ late = 0
                /\ UNCHANGED <<products, cartSection, totals, payment, now>>
           ELSE /\ late \in 0..TotalsReads(cart)
                /\ products' = after
                /\ cartSection' = printCart(after, cart)
                /\ UpdateCartTotals(after, cart, late)
  /\ UNCHANGED <<cart, filteredProducts, inputValue, productsListing>>

\* lines 351-359: the + button of the cart article at position i
IncreaseProductFromCart(i, late) ==
  /\ i \in DOMAIN cartSection
  /\ Dispatch
  /\ LET d == DataId(cartSection[i].quantityId)
         after == IncreaseAmount(products, cart, d)
     IN  IF after = products
           THEN /\ late = 0
                /\ UNCHANGED <<products, cartSection, totals, payment, now>>
           ELSE /\ \A j \in DOMAIN cart : Find(after, cart[j]).amount <= MaxAmount
                /\ late \in 0..TotalsReads(cart)
                /\ products' = after
                /\ cartSection' = printCart(after, cart)
                /\ UpdateCartTotals(after, cart, late)
  /\ UNCHANGED <<cart, filteredProducts, inputValue, productsListing>>

\* handleDeleteCartItem without its call of printCart
HandleDeleteCartItemNoPrint(i, icon, late) ==
  /\ i \in DOMAIN cartSection
  /\ Dispatch
  /\ LET d == IF icon THEN NoDataId ELSE DataId(cartSection[i].deleteId)
         after == DeleteCartItem(cart, d)
     IN  /\ late \in 0..TotalsReads(after)
         /\ cart' = after
         /\ cartSection' = cartSection
         /\ UpdateCartTotals(products, after, late)
  /\ UNCHANGED <<products, filteredProducts, inputValue, productsListing>>

\* lines 362-367: a click on the delete control of the cart article at position
\* i; the event target is the button, or the icon element inside it, which
\* carries no data-id
HandleDeleteCartItem(i, icon, late) ==
  /\ i \in DOMAIN cartSection
  /\ Dispatch
  /\ LET d == IF icon THEN NoDataId ELSE DataId(cartSection[i].deleteId)
         after == DeleteCartItem(cart, d)
     IN  /\ late \in 0..TotalsReads(after)
         /\ cart' = after
         /\ cartSection' = printCart(products, after)
         /\ UpdateCartTotals(products, after, late)
  /\ UNCHANGED <<products, filteredProducts, inputValue, productsListing>>

\* lines 64-89: a pending session timer fires and runs clearOrder. The three
\* reset() calls put the radios back to the markup's state when a reset form
\* holds them (reset) and leave them alone when none does.
ClearOrder(late) ==
  /\ \E tm \in timers : timers' = timers \ {tm}
  /\ idle' = idle
  /\ dispatched' = 1 - dispatched
  /\ late \in 0..TotalsReads(<<>>)
  /\ cart' = <<>>
  /\ cartSection' = printCart(products, <<>>)
  /\ \E reset \in BOOLEAN :
       UpdateCartTotalsWith(IF reset THEN [payment EXCEPT !.checked = InitialPayment.checked]
                                     ELSE payment,
                            products, <<>>, late)
  /\ UNCHANGED <<products, filteredProducts, inputValue, productsListing>>

\* lines 642-644: a click on the radio of value method. The browser checks the
\* radio and, when it was not the checked one, fires change, whose listener is
\* handlePaymentMethodToggle; parseFloat reads the number that starts the text
\* of #cartTotal, the total as toFixed(2) displayed it.
ChangePaymentMethod(method) ==
  /\ Dispatch
  /\ payment' = IF payment.checked = method THEN payment
                ELSE handlePaymentMethodToggle(method, [payment EXCEPT !.checked = method],
                                               totals.cartTotalText)
  /\ UNCHANGED <<products, cart, filteredProducts, inputValue, productsListing, cartSection,
                 totals, now>>

\* a keypress or input event in a field of the forms: of the listeners
\* followed here only resetTimeout runs
Keypress ==
  /\ Dispatch
  /\ UNCHANGED <<products, cart, filteredProducts, inputValue, productsListing, cartSection,
                 totals, payment, now>>

\* A minute passes without an event. A timer counts down to 0, when it is due,
\* and stays pending until the event loop runs its callback.
Pass ==
  /\ now < At(3, 12, 0) + MaxMinutes
  /\ now' = NextMinute(now)
  /\ idle' = IF idle < INACTIVITY_TIMEOUT_MINUTES THEN idle + 1 ELSE idle
  /\ timers' = {[tm EXCEPT !.remaining = IF @ > 0 THEN @ - 1 ELSE 0] : tm \in timers}
  /\ UNCHANGED <<products, cart, filteredProducts, inputValue, productsListing, cartSection,
                 totals, payment, dispatched>>

\* the event loop runs the callback of a session timer that is due: never
\* before the timer's delay has passed
SessionTimeout(late) ==
  /\ \E tm \in timers : tm.remaining = 0 /\ timers' = timers \ {tm}
  /\ ClearOrder(late)

-----------------------------------------------------------------------------
(* 4. Product display and filtering *)

price(ps, id) == Find(ps, id).price

RECURSIVE Insert(_, _, _, _, _)
\* x put into the sorted sequence s (from position i on) before the first
\* element the comparator places strictly after it
Insert(ps, s, x, low, i) ==
  IF i > Len(s) THEN Append(s, x)
  ELSE IF (IF low THEN price(ps, x) - price(ps, s[i]) ELSE price(ps, s[i]) - price(ps, x)) < 0
         THEN SubSeq(s, 1, i - 1) \o <<x>> \o SubSeq(s, i, Len(s))
         ELSE Insert(ps, s, x, low, i + 1)

RECURSIVE SortedFrom(_, _, _, _, _)
SortedFrom(ps, fp, low, i, acc) ==
  IF i > Len(fp) THEN acc ELSE SortedFrom(ps, fp, low, i + 1, Insert(ps, acc, fp[i], low, 1))

\* filteredProducts.sort(...) of sortProducts: Array.prototype.sort is stable
sort(ps, fp, low) == SortedFrom(ps, fp, low, 1, <<>>)

\* products.filter(product => product.category === value), or [...products]
filter(ps, value) ==
  LET keep == {i \in DOMAIN ps : value = "all" \/ ps[i].category = value}
      RECURSIVE From(_)
      From(i) == IF i > Len(ps) THEN <<>>
                 ELSE (IF i \in keep THEN <<ps[i].id>> ELSE <<>>) \o From(i + 1)
  IN  From(1)

FilterValues == {"all"} \cup Categories
SortValues == {"low", "high"}

\* printProducts() on the listing array fp: every quantity field is created anew
PrintProducts(fp, late) ==
  /\ late \in 0..Len(fp)
  /\ filteredProducts' = fp
  /\ productsListing' = printProducts(products, fp, now, late)
  /\ inputValue' = [p \in ProductIds |-> 0]
  /\ now' = ClockAfter(late)

\* lines 174-184: the category dropdown changes to value
FilterProducts(value, late) ==
  /\ Dispatch
  /\ PrintProducts(filter(products, value), late)
  /\ UNCHANGED <<products, cart, cartSection, totals, payment>>

\* lines 191-199: the price dropdown changes to value
SortProducts(value, late) ==
  /\ Dispatch
  /\ PrintProducts(sort(products, filteredProducts, value = "low"), late)
  /\ UNCHANGED <<products, cart, cartSection, totals, payment>>

-----------------------------------------------------------------------------
(* The clock *)

\* The instants the clock is observed at: the minute before and the minute of
\* every change of a pricing rule, and one instant inside every regime.
Instants ==
  { At(0, 2, 59), At(0, 3, 0), At(0, 12, 0), At(0, 23, 59),
    At(1, 0, 0), At(1, 2, 59), At(1, 3, 0), At(1, 9, 59), At(1, 10, 0),
    At(3, 12, 0),
    At(5, 14, 59), At(5, 15, 0),
    At(6, 12, 0) }

\* A callback is followed across a change of minute only when a pricing rule
\* may change with it.
Late == IF NextMinute(now) \in Instants THEN 0..(Len(Catalog) + 1) ELSE {0}

-----------------------------------------------------------------------------------------------------------------------------------------------------
(* The cart: the listing's quantity buttons and Buy, the cart's buttons, and *)
(* the session timer, from the state after load                              *)

Init == Loaded(At(3, 12, 0))

Next ==
  \/ \E p \in Shelf : IncreaseProductCount(p)
  \/ \E p \in Shelf : DecreaseProductCount(p)
  \/ \E p \in Shelf, late \in Late : AddProductToCart(p, late)
  \/ \E i \in 1..Len(Catalog), late \in Late : DecreaseProductFromCart(i, late)
  \/ \E i \in 1..Len(Catalog), late \in Late : IncreaseProductFromCart(i, late)
  \/ \E i \in 1..Len(Catalog), icon \in BOOLEAN, late \in Late : HandleDeleteCartItem(i, icon, late)
  \/ \E late \in Late : ClearOrder(late)

Spec == Init /\ [][Next]_vars

-----------------------------------------------------------------------------
(* The listing and its displayed prices, the page loaded at any hour of the week *)

\* the first and the last minute of every hour of the week
ListingInstants == {t \in 0..(MinutesPerWeek - 1) : GetMinutes(t) \in {0, 59}}

InitListing == \E t \in ListingInstants : Loaded(t)

NextListing ==
  \/ \E value \in FilterValues, late \in Late : FilterProducts(value, late)
  \/ \E value \in SortValues, late \in Late : SortProducts(value, late)

SpecListing == InitListing /\ [][NextListing]_vars

-----------------------------------------------------------------------------
(* The cart's buttons on a cart that holds every product of the catalog *)

\* the catalog objects after the products of the domain of qty were bought
\* and hold the quantities qty
Stocked(qty) ==
  [i \in DOMAIN Catalog |->
     IF Catalog[i].id \in DOMAIN qty
       THEN [f \in DOMAIN Catalog[i] \cup {"amount"} |->
               IF f = "amount" THEN qty[Catalog[i].id] ELSE Catalog[i][f]]
       ELSE Catalog[i]]

\* The page at instant t after the customer bought, with the listing's +
\* and Buy buttons, the products of c in the order of c, in the quantities qty.
Bought(c, qty, t) ==
  /\ products = Stocked(qty)
  /\ cart = c
  /\ filteredProducts = AllIds
  /\ inputValue = [p \in ProductIds |-> 0]
  /\ productsListing = printProducts(Catalog, AllIds, t, 0)
  /\ cartSection = printCart(Stocked(qty), c)
  /\ totals = ComputeTotals(Stocked(qty), c, t, 0)
  /\ payment = InitialPayment
  /\ timers = {NewTimer}
  /\ idle = 0
  /\ now = t
  /\ dispatched = 0

\* one of every product, bought in catalog order
InitFull == Bought(AllIds, [p \in ProductIds |-> 1], At(3, 12, 0))

NextFull ==
  \/ \E i \in 1..Len(Catalog), late \in Late : DecreaseProductFromCart(i, late)
  \/ \E i \in 1..Len(Catalog), late \in Late : IncreaseProductFromCart(i, late)
  \/ \E i \in 1..Len(Catalog), icon \in BOOLEAN, late \in Late : HandleDeleteCartItem(i, icon, late)
  \/ \E late \in Late : ClearOrder(late)

SpecFull == InitFull /\ [][NextFull]_vars

-----------------------------------------------------------------------------
(* The totals of carts of up to three lines, at the observed instants *)

TotalsShelf == {11, 12, 21}
TotalsQuantities == {1, 5, 6, 9, 10, 16}
TotalsCarts ==
  {<<>>} \cup {<<p>> : p \in TotalsShelf}
         \cup {pq \in TotalsShelf \X TotalsShelf : pq[1] # pq[2]}
         \cup {pqr \in TotalsShelf \X TotalsShelf \X TotalsShelf :
                 pqr[1] # pqr[2] /\ pqr[1] # pqr[3] /\ pqr[2] # pqr[3]}

InitTotals ==
  \E c \in TotalsCarts, t \in Instants :
    \E qty \in [{c[i] : i \in DOMAIN c} -> TotalsQuantities] : Bought(c, qty, t)

NextTotals ==
  \/ \E i \in 1..Len(Catalog), icon \in BOOLEAN, late \in Late : HandleDeleteCartItem(i, icon, late)
  \/ \E late \in Late : ClearOrder(late)

SpecTotals == InitTotals /\ [][NextTotals]_vars

-----------------------------------------------------------------------------
(* The payment radios on carts whose grand total is next to the invoice limit *)

\* the product whose listing buttons the customer uses here
PaymentShelf == {31}
PaymentMethods == {"card", "invoice"}

\* 3 x 29 + 7 x 49 with the bulk discount, 7 x 59 and free shipping: 800.00 on
\* a Wednesday; 16 x 29 + 3 x 79 with the bulk discount, 2 x 129, free shipping
\* and the Monday discount: 800.01 on a Monday morning
PaymentCarts ==
  { [cart |-> <<11, 12, 33>>, qty |-> (11 :> 3) @@ (12 :> 7) @@ (33 :> 7)],
    [cart |-> <<11, 13, 24>>, qty |-> (11 :> 16) @@ (13 :> 3) @@ (24 :> 2)] }

InitPayment ==
  \E pc \in PaymentCarts, t \in {At(3, 12, 0), At(1, 9, 59)} : Bought(pc.cart, pc.qty, t)

NextPayment ==
  \/ \E method \in PaymentMethods : ChangePaymentMethod(method)
  \/ \E p \in PaymentShelf : IncreaseProductCount(p)
  \/ \E p \in PaymentShelf, late \in Late : AddProductToCart(p, late)
  \/ \E i \in 1..Len(Catalog), icon \in BOOLEAN, late \in Late : HandleDeleteCartItem(i, icon, late)
  \/ \E late \in Late : ClearOrder(late)

SpecPayment == InitPayment /\ [][NextPayment]_vars

-----------------------------------------------------------------------------
(* Buy clicks whose target carries any data-id, on the full and on the        *)
(* filtered listing                                                           *)

BuyShelf == {11, 21}

\* the dataset.id of the targets the listener is run for: Buy buttons of
\* listed and of filtered-out products, ids no product has, and no data-id
BuyTargets == {DataId(id) : id \in BuyShelf \cup {15, 99}} \cup {NoDataId}

InitBuy == Loaded(At(3, 12, 0))

NextBuy ==
  \/ \E p \in BuyShelf : IncreaseProductCount(p)
  \/ \E d \in BuyTargets, late \in Late : addProductToCart(d, late)
  \/ \E late \in Late : FilterProducts("food", late)

SpecBuy == InitBuy /\ [][NextBuy]_vars

-----------------------------------------------------------------------------
(* Every callback that changes the cart, on a cart that holds every product: *)
(* Buy of one product, the cart's quantity buttons, delete at the first and  *)
(* the last position, and the session timer                                  *)

RedisplayShelf == {11}
\* the positions of the cart articles whose delete control is clicked
RedisplayRows == {1, Len(Catalog)}

NextRedisplay ==
  \/ \E p \in RedisplayShelf : IncreaseProductCount(p)
  \/ \E p \in RedisplayShelf, late \in Late : AddProductToCart(p, late)
  \/ \E i \in 1..Len(Catalog), late \in Late : DecreaseProductFromCart(i, late)
  \/ \E i \in 1..Len(Catalog), late \in Late : IncreaseProductFromCart(i, late)
  \/ \E i \in RedisplayRows, icon \in BOOLEAN, late \in Late : HandleDeleteCartItem(i, icon, late)
  \/ \E late \in Late : ClearOrder(late)

SpecRedisplay == InitFull /\ [][NextRedisplay]_vars

-----------------------------------------------------------------------------
(* The session timer, minute by minute, with clicks in the listing and        *)
(* keypresses; the event loop runs a timer callback that is due               *)

TimerShelf == {11}

InitTimer == Loaded(At(3, 12, 0))

NextTimer ==
  \/ Pass
  \/ Keypress
  \/ \E p \in TimerShelf : IncreaseProductCount(p)
  \/ \E p \in TimerShelf, late \in Late : AddProductToCart(p, late)
  \/ \E late \in Late : SessionTimeout(late)

SpecTimer ==
  InitTimer /\ [][NextTimer]_vars /\ WF_vars(\E late \in Late : SessionTimeout(late))

-----------------------------------------------------------------------------
(* Properties of the cart *)

\* the quantity of the cart line of product id
Quantity(ps, id) == Find(ps, id).amount

\* the product ids of the cart lines
InCart(c) == {c[i] : i \in DOMAIN c}

RECURSIVE QuantitySumOf(_, _)
\* the sum of the quantities the objects ps hold for the products ids
QuantitySumOf(ps, ids) ==
  IF ids = {} THEN 0
  ELSE LET p == CHOOSE x \in ids : TRUE
       IN  Quantity(ps, p) + QuantitySumOf(ps, ids \ {p})

NoDuplicateLines == \A i, j \in DOMAIN cart : cart[i] = cart[j] => i = j

\* the cart c with the line at position i (1-based) removed
WithoutLine(c, i) == [j \in 1..(Len(c) - 1) |-> IF j < i THEN c[j] ELSE c[j + 1]]

\* the cart lines and the quantities of the lines other than product id are the same
\* before and after the step
OtherLinesKept(id) ==
  /\ cart' = cart
  /\ \A q \in InCart(cart) \ {id} : Quantity(products', q) = Quantity(products, q)

\* C1: the cart holds at most one line per product id, and a Buy of quantity q > 0
\* raises the quantity of the product's line by q without a second line when
\* the product has a line, and appends one line of quantity q when it has none.
C1_OneLinePerProduct ==
  [][/\ NoDuplicateLines
     /\ NoDuplicateLines'
     /\ \A p \in ProductIds, late \in Late :
          (inputValue[p] > 0 /\ AddProductToCart(p, late)) =>
             IF p \in InCart(cart)
               THEN /\ cart' = cart
                    /\ Quantity(products', p) = Quantity(products, p) + inputValue[p]
               ELSE /\ cart' = Append(cart, p)
                    /\ Quantity(products', p) = inputValue[p]]_vars

\* two purchases of product 11 have merged into one line (a single purchase
\* brings at most MaxInput)
C1_Witness ==
  /\ cart = <<12, 11>>
  /\ Quantity(products, 11) = 3
  /\ Quantity(products, 12) = 1

\* C2: the + (resp. -) button rendered for a product's cart line changes the
\* quantity of that product's line by +1 (resp. -1 when it is positive) and
\* leaves every other line as it was.
C2_QuantityButtonsChangeOwnLine ==
  [][\A i \in DOMAIN cartSection, late \in Late :
       LET id == cartSection[i].quantityId
       IN  /\ IncreaseProductFromCart(i, late) =>
                /\ Quantity(products', id) = Quantity(products, id) + 1
                /\ OtherLinesKept(id)
           /\ DecreaseProductFromCart(i, late) =>
                /\ Quantity(products', id) =
                     Quantity(products, id) - (IF Quantity(products, id) > 0 THEN 1 ELSE 0)
                /\ OtherLinesKept(id)]_vars

\* C3: every cart line has a quantity of at least 1.
C3_QuantitiesAtLeastOne == \A i \in DOMAIN cart : Quantity(products, cart[i]) >= 1

\* C4: a click on the delete control of the cart article at position i, on the
\* button or on the icon inside it, removes the line at position i and leaves
\* every other line, its quantity and the order of the lines as they were.
C4_DeleteRemovesItsLine ==
  [][\A i \in DOMAIN cartSection, icon \in BOOLEAN, late \in Late :
       HandleDeleteCartItem(i, icon, late) =>
         /\ cart' = WithoutLine(cart, i)
         /\ \A q \in InCart(cart) : Quantity(products', q) = Quantity(products, q)]_vars

\* no product of the catalog has the id that dataset.id d gives
NotInCatalog(d) == Number(d).nan \/ Number(d).val \notin ProductIds

\* the listing quantity of the product that dataset.id d names
ListingQuantity(d) == inputValue[Number(d).val]

\* C12: a Buy click for an id that is not in the catalog, or with a listing
\* quantity <= 0, leaves the cart's lines, their quantities and order, the
\* cart section and the displayed totals as they were.
C12_BuyNoOp ==
  [][\A d \in BuyTargets, late \in Late :
       (addProductToCart(d, late) /\ (NotInCatalog(d) \/ ListingQuantity(d) <= 0)) =>
          UNCHANGED <<cart, products, cartSection, totals>>]_vars

\* one Rice Cookie bought, every listing quantity at 0, and one more click
\* dispatched: a Buy that changed nothing (no other click of this
\* specification leaves the full listing, the quantities and the cart alone)
C12_Witness ==
  /\ cart = <<11>>
  /\ Quantity(products, 11) = 1
  /\ filteredProducts = AllIds
  /\ inputValue = [p \in ProductIds |-> 0]
  /\ totals.itemCount = 1
  /\ dispatched = 1

\* the cart section cs shows the lines of cart c, in order, with the
\* quantities the objects ps hold
ShowsCart(cs, ps, c) ==
  /\ Len(cs) = Len(c)
  /\ \A i \in DOMAIN c :
       /\ cs[i].name = Find(Catalog, c[i]).name
       /\ cs[i].amount = Quantity(ps, c[i])

\* the totals tt were computed from the lines of cart c with the quantities
\* the objects ps hold
TotalsFrom(tt, ps, c) ==
  /\ tt.computed
  /\ Len(tt.lines) = Len(c)
  /\ \A i \in DOMAIN c :
       /\ tt.lines[i].id = c[i]
       /\ tt.lines[i].amount = Quantity(ps, c[i])
       /\ tt.lines[i].productSum = tt.lines[i].finalPrice * Quantity(ps, c[i])
  /\ tt.itemCount = QuantitySumOf(ps, InCart(c))
  /\ tt.cartTotal = SumProducts(tt.lines, 1)
  /\ tt.finalTotal = tt.cartTotal - tt.discountAmount + tt.shippingCost
  /\ tt.cartTotalText = ToFixed2(tt.finalTotal)

\* C13: a callback that changed the cart (its lines or a line's quantity)
\* returns with the cart section and the totals recomputed from the cart as
\* it then is.
C13_RedisplayedAfterMutation ==
  [][(cart' # cart \/ products' # products) =>
        /\ ShowsCart(cartSection', products', cart')
        /\ TotalsFrom(totals', products', cart')]_vars

\* the - button of the Rice Cookie line has taken the twelfth line to 0, and
\* the cart section and the totals show it: 12 lines, 11 items
C13_Witness ==
  /\ Len(cart) = Len(Catalog)
  /\ Quantity(products, 34) = 0
  /\ cartSection[Len(Catalog)].amount = 0
  /\ totals.lines[Len(Catalog)].amount = 0
  /\ totals.itemCount = 11

\* C14: every product record of the catalog array, its fields and their
\* values, and the order of the array are what they were at startup.
C14_CatalogNeverMutated == products = Catalog

-----------------------------------------------------------------------------
(* Properties of the displayed prices *)

\* the continuous window from Friday 15:00 (inclusive) to Monday 03:00 (exclusive)
InWeekendWindow(t) == t >= At(5, 15, 0) \/ t < At(1, 3, 0)

Surcharged(basePrice) == (basePrice * 115) \div 100

\* the base price of the product of a listing article
BasePrice(article) == Kr(Find(Catalog, article.id).price)

\* C5: calculateProductPrice returns basePrice x 1.15 at every instant of the
\* window from Friday 15:00 to Monday 03:00 and basePrice at every other instant.
C5_SurchargeInWeekendWindow ==
  \A i \in DOMAIN productsListing :
    productsListing[i].displayPrice =
      IF InWeekendWindow(productsListing[i].at)
        THEN Surcharged(BasePrice(productsListing[i]))
        ELSE BasePrice(productsListing[i])

\* C6: no surcharge at Friday 14:59, the surcharge at Friday 15:00 and at Monday
\* 02:59, none at Monday 03:00.
C6_SurchargeBoundaries ==
  \A i \in DOMAIN productsListing :
    LET article == productsListing[i]
    IN  /\ article.at = At(5, 14, 59) => article.displayPrice = BasePrice(article)
        /\ article.at = At(5, 15, 0) => article.displayPrice = Surcharged(BasePrice(article))
        /\ article.at = At(1, 2, 59) => article.displayPrice = Surcharged(BasePrice(article))
        /\ article.at = At(1, 3, 0) => article.displayPrice = BasePrice(article)

\* a listing rendered while the clock went from Friday 14:59 to Friday 15:00:
\* the first article priced before the change, the last one after it
C6_Witness ==
  /\ Len(productsListing) = Len(Catalog)
  /\ productsListing[1].at = At(5, 14, 59)
  /\ productsListing[1].displayPrice = Kr(29)
  /\ productsListing[Len(Catalog)].at = At(5, 15, 0)
  /\ productsListing[Len(Catalog)].displayPrice = 6785000

-----------------------------------------------------------------------------
(* Properties of the totals *)

RECURSIVE QuantitySum(_, _)
\* the sum of the quantities of the cart lines of the products ids
QuantitySum(ps, ids) ==
  IF ids = {} THEN 0
  ELSE LET p == CHOOSE x \in ids : TRUE
       IN  Quantity(ps, p) + QuantitySum(ps, ids \ {p})

\* the sum of the quantities of the cart lines whose product is of the category
CategoryAggregate(category) ==
  QuantitySum(products, {p \in InCart(cart) : Find(Catalog, p).category = category})

\* the unit price of product id at instant t when its category's aggregate is
\* aggregate: the surcharge first, the bulk discount on the surcharged price
UnitPrice(id, t, aggregate) ==
  LET surcharged == IF isWeekendSurcharge(t) THEN Surcharged(Kr(Find(Catalog, id).price))
                    ELSE Kr(Find(Catalog, id).price)
  IN  IF aggregate >= 10 THEN surcharged - surcharged \div 10 ELSE surcharged

\* product id was bought and its line was deleted since
Deleted(id) == id \notin InCart(cart) /\ "amount" \in DOMAIN Find(products, id)

\* the totals on display were computed from the cart as it is
TotalsOfCart ==
  /\ totals.computed
  /\ Len(totals.lines) = Len(cart)
  /\ \A i \in DOMAIN cart : totals.lines[i].id = cart[i]

RECURSIVE LineSubtotals(_)
\* the sum of the subtotals of the cart lines i..Len(cart), every line priced
\* at the instant its pass of the loop read
LineSubtotals(i) ==
  IF i > Len(cart) THEN 0
  ELSE UnitPrice(cart[i], totals.lines[i].at, CategoryAggregate(Find(Catalog, cart[i]).category))
         * Quantity(products, cart[i])
       + LineSubtotals(i + 1)

\* C7: a line's unit price is reduced by 10% exactly when the quantities of the
\* lines of its category sum to 10 or more, whatever the line's own quantity.
C7_BulkDiscountByCategoryAggregate ==
  /\ TotalsOfCart
  /\ \A i \in DOMAIN cart :
       LET line == totals.lines[i]
           aggregate == CategoryAggregate(Find(Catalog, cart[i]).category)
       IN  /\ aggregate >= 10 =>
                line.finalPrice = line.priceWithSurcharge - line.priceWithSurcharge \div 10
           /\ aggregate < 10 => line.finalPrice = line.priceWithSurcharge

\* after the food line was deleted: two snacks lines of quantities 1 and 9, an
\* aggregate of exactly 10, both discounted
C7_Witness ==
  /\ Deleted(21)
  /\ cart = <<11, 12>>
  /\ Quantity(products, 11) = 1
  /\ Quantity(products, 12) = 9
  /\ totals.lines[1].finalPrice = 2610000
  /\ totals.lines[2].finalPrice = 4410000

\* Monday from 00:00 to 09:59
MondayMorning(t) == t >= At(1, 0, 0) /\ t <= At(1, 9, 59)

\* C8: the Monday discount is 10% of cartTotal, the sum of the line subtotals
\* after surcharge and bulk discount, when the instant read for it is a Monday
\* before 10:00, and 0 at every other instant.
C8_MondayDiscount ==
  /\ TotalsOfCart
  /\ totals.cartTotal = LineSubtotals(1)
  /\ MondayMorning(totals.date) => totals.discountAmount * 10 = totals.cartTotal
  /\ ~MondayMorning(totals.date) => totals.discountAmount = 0

\* totals computed at Monday 09:59 after a deletion, with the discount
C8_Witness ==
  /\ Deleted(11)
  /\ totals.date = At(1, 9, 59)
  /\ cart = <<21>>
  /\ Quantity(products, 21) = 1
  /\ totals.cartTotal = Kr(149)
  /\ totals.discountAmount = 1490000

\* C9: shipping is 0 for more than 15 items, 25 + 10% of totalAfterDiscount for 1
\* to 15 items, and 0 for no item.
C9_Shipping ==
  LET count == QuantitySum(products, InCart(cart))
  IN  /\ TotalsOfCart
      /\ totals.itemCount = count
      /\ count > 15 => totals.shippingCost = 0
      /\ (count >= 1 /\ count <= 15) =>
           totals.shippingCost * 10 = Kr(250) + totals.totalAfterDiscount
      /\ count = 0 => totals.shippingCost = 0

\* 15 items left after a deletion, charged
C9_Witness ==
  /\ Deleted(12)
  /\ cart = <<11, 21>>
  /\ Quantity(products, 11) = 10
  /\ Quantity(products, 21) = 5
  /\ totals.itemCount = 15
  /\ totals.shippingCost > Kr(25)

\* C10: the grand total is totalAfterDiscount + shipping, cartTotal the sum over
\* the lines of unit price x surcharge factor x bulk factor x quantity; 10 of
\* product 11 outside surcharge and Monday discount give 261.0, 51.1 and 312.1,
\* and an empty cart gives a grand total and a shipping of 0.00.
C10_GrandTotal ==
  /\ TotalsOfCart
  /\ totals.cartTotal = LineSubtotals(1)
  /\ totals.totalAfterDiscount = totals.cartTotal - totals.discountAmount
  /\ totals.finalTotal = totals.totalAfterDiscount + totals.shippingCost
  /\ ( /\ cart = <<11>>
       /\ Quantity(products, 11) = 10
       /\ ~isWeekendSurcharge(totals.lines[1].at)
       /\ ~MondayMorning(totals.date) )
     => /\ totals.cartTotal = 26100000
        /\ totals.shippingCost = 5110000
        /\ totals.finalTotal = 31210000
  /\ cart = <<>> =>
       /\ totals.finalTotal = 0
       /\ totals.cartTotalText = 0
       /\ totals.shippingCost = 0
       /\ totals.shippingText = 0
       /\ ~totals.freeShipping

\* after a deletion, two lines of one category with an aggregate of 10 or more,
\* priced inside the surcharge window: both adjustments compose
C10_Witness ==
  /\ Deleted(21)
  /\ cart = <<11, 12>>
  /\ Quantity(products, 11) = 10
  /\ Quantity(products, 12) = 1
  /\ totals.lines[1].at = At(6, 12, 0)
  /\ totals.lines[1].finalPrice = 3001500
  /\ totals.cartTotal = 35086500
  /\ totals.finalTotal = 41095150

\* C16: the totals on display are those of one instant: some instant gives
\* every line's surcharge decision and the Monday discount decision. (The
\* observed instants hold one instant of every combination of the two
\* decisions.)
C16_TotalsOfOneInstant ==
  totals.computed =>
    \E t \in Instants :
      /\ \A i \in DOMAIN totals.lines :
           totals.lines[i].priceWithSurcharge =
             calculateProductPrice(Kr(Find(Catalog, totals.lines[i].id).price), t)
      /\ totals.discountAmount = MondayDiscount(totals.cartTotal, t)

-----------------------------------------------------------------------------
(* Properties of the payment method *)

\* 0.01 kr
Cent == Scale \div 100

\* the text of #cartTotal is the multiple of 0.01 nearest to the grand total
DisplayedIsRounded ==
  /\ totals.cartTotalText % Cent = 0
  /\ 2 * (totals.cartTotalText - totals.finalTotal) <= Cent
  /\ 2 * (totals.finalTotal - totals.cartTotalText) < Cent

\* C11: the choice of invoice stands exactly when the grand total as displayed,
\* rounded to 2 decimals, is <= 800: 800.00 is eligible, 800.01 is not.
C11_InvoiceByDisplayedTotal ==
  /\ isInvoicePaymentAllowed(Kr(800))
  /\ ~isInvoicePaymentAllowed(Kr(800) + Cent)
  /\ []DisplayedIsRounded
  /\ [][(payment.checked # "invoice" /\ ChangePaymentMethod("invoice")) =>
          IF totals.cartTotalText <= Kr(800)
            THEN payment'.checked = "invoice" /\ ~payment'.invoiceHidden /\ payment'.cardHidden
            ELSE payment'.checked = "none" /\ payment'.warning]_vars

\* invoice chosen, and standing, at a displayed grand total of 800.00
C11_Witness ==
  /\ cart = <<11, 12, 33>>
  /\ totals.finalTotal = Kr(800)
  /\ totals.cartTotalText = Kr(800)
  /\ payment.checked = "invoice"
  /\ ~payment.invoiceHidden

-----------------------------------------------------------------------------
(* Properties of the session timer *)

\* the one timer that can be pending idle minutes after the last event
TimerOfLastEvent ==
  [remaining |-> INACTIVITY_TIMEOUT_MINUTES - idle, current |-> TRUE]

\* C15: every click, keypress or input event leaves exactly one session timer
\* pending, due 15 minutes later; at most one is pending at any time; clearOrder
\* runs, and empties the cart, no earlier than 15 minutes after the last event;
\* and once 15 minutes have passed without an event, clearOrder runs (unless an
\* event comes first).
C15_SessionTimer ==
  /\ [](Cardinality(timers) <= 1 /\ timers \subseteq {TimerOfLastEvent})
  /\ [][(idle' = 0 /\ dispatched' # dispatched) => timers' = {NewTimer}]_vars
  /\ [][(\E late \in Late : SessionTimeout(late)) =>
          /\ idle >= INACTIVITY_TIMEOUT_MINUTES
          /\ cart' = <<>>
          /\ timers' = {}]_vars
  /\ (idle = INACTIVITY_TIMEOUT_MINUTES /\ timers # {}) ~> (timers = {} \/ idle = 0)

\* the timer has fired 15 minutes after the Buy click and emptied the cart
\* of the Rice Cookie bought
C15_Witness ==
  /\ cart = <<>>
  /\ "amount" \in DOMAIN Find(products, 11)
  /\ totals.computed
  /\ totals.itemCount = 0
  /\ timers = {}
  /\ idle = INACTIVITY_TIMEOUT_MINUTES
  /\ now = At(3, 12, 0) + INACTIVITY_TIMEOUT_MINUTES

\* the same payment section is visible before and after the step
SectionsKept ==
  /\ payment'.invoiceHidden = payment.invoiceHidden
  /\ payment'.cardHidden = payment.cardHidden

\* C17: invoice is never the checked method while the displayed grand total
\* exceeds 800: when invoice is chosen at a displayed total > 800, and when a
\* callback leaves a displayed total > 800 while invoice is checked, the invoice
\* radio ends unchecked and the visible payment section is the one it was.
C17_InvoiceNeverAbove800 ==
  /\ [](payment.checked = "invoice" => totals.cartTotalText <= Kr(800))
  /\ [][(/\ payment.checked # "invoice"
          /\ ChangePaymentMethod("invoice")
          /\ totals.cartTotalText > Kr(800)) =>
            (payment'.checked = "none" /\ SectionsKept)]_vars
  /\ [][(/\ payment.checked = "invoice"
          /\ totals' # totals
          /\ totals'.cartTotalText > Kr(800)) =>
            (payment'.checked = "none" /\ SectionsKept)]_vars

\* invoice was chosen at 800.00, a Buy of Iced Peach Tea raised the displayed
\* total above 800, and the radio is unchecked with the invoice section still
\* the visible one
C17_Witness ==
  /\ cart = <<11, 12, 33, 31>>
  /\ totals.cartTotalText > Kr(800)
  /\ payment.checked = "none"
  /\ payment.warning
  /\ ~payment.invoiceHidden
  /\ payment.cardHidden

====
